---- MODULE Spec2Model ----
(***************************************************************************)
(* A model of pdf-thumb (src/src/lib.rs): a thin wrapper of the WinRT      *)
(* PdfDocument class.  The model follows the wrapper's code call by call:  *)
(* every call the wrapper makes on a platform object is one step, the      *)
(* platform's answer (success or rejection) is a nondeterministic input,   *)
(* and the platform's asynchronous operations complete on their own.       *)
(***************************************************************************)
EXTENDS Integers, Sequences, FiniteSets, TLC

(***************************************************************************)
(* Bounds of the model.                                                    *)
(***************************************************************************)
\* number of pages of the modelled document
NumPages == 2
\* largest destination width / height the callers ask for
MaxDim == 2
\* largest rectangle coordinate the callers ask for
MaxCoord == 16777217
\* number of calls the caller makes on the document and on its pages
MaxOps == 4

(***************************************************************************)
(* Value types: Rect, Options, ImageFormat.                                *)
(***************************************************************************)
\* a u64 is written in two 32-bit words: the value hi * 2^32 + lo
U64(hi, lo) == [hi |-> hi, lo |-> lo]
Leq64(a, b) == a.hi < b.hi \/ (a.hi = b.hi /\ a.lo <= b.lo)
Min64(a, b) == IF Leq64(a, b) THEN a ELSE b

\* the integers up to 2^24 are the ones every f32 holds exactly
F32Exact == 16777216

\* `u32 as f32`: integers up to 2^24 are exact, larger ones are rounded to
\* the nearest multiple of the binade's spacing (ties to the even multiple).
\* The spacing around n is the least power of two u that leaves n \div u
\* within the 24 bits of the significand.
RECURSIVE Ulp(_, _)
Ulp(n, u) == IF n \div u < F32Exact THEN u ELSE Ulp(n, u * 2)

AsF32(n) ==
    IF n <= F32Exact THEN n
    ELSE LET u == Ulp(n, 1)
             q == n \div u
             r == n % u
         IN  IF 2 * r < u THEN q * u
             ELSE IF 2 * r > u THEN (q + 1) * u
             ELSE IF q % 2 = 0 THEN q * u ELSE (q + 1) * u

\* #[derive(Default)] on Rect
RectDefault == [x |-> 0, y |-> 0, width |-> 0, height |-> 0]

\* impl From<Rect> for Foundation::Rect
FoundationRect(r) == <<AsF32(r.x), AsF32(r.y), AsF32(r.width), AsF32(r.height)>>

ImageFormats == {"Png", "Bmp", "Jpeg", "Tiff", "Gif"}

\* impl Default for ImageFormat
ImageFormatDefault == "Png"

\* guid with the Jpeg arm returning the identifier of the arm above it
Mutguid(f) ==
    CASE f = "Png"  -> "PNG_ENCORDER_ID"
      [] f = "Bmp"  -> "BITMAP_ENCODER_ID"
      [] f = "Jpeg" -> "BITMAP_ENCODER_ID"
      [] f = "Tiff" -> "TIFF_ENCODER_ID"
      [] f = "Gif"  -> "GIF_ENCODER_ID"

\* ImageFormat::guid: the encoder identifier constant of each format
guid(f) ==
    CASE f = "Png"  -> "PNG_ENCORDER_ID"
      [] f = "Bmp"  -> "BITMAP_ENCODER_ID"
      [] f = "Jpeg" -> "JPEG_ENCORDER_ID"
      [] f = "Tiff" -> "TIFF_ENCODER_ID"
      [] f = "Gif"  -> "GIF_ENCODER_ID"

\* #[derive(Default)] on Options
OptionsDefault ==
    [width |-> 0, height |-> 0, rect |-> RectDefault, page |-> 0,
     format |-> ImageFormatDefault]

(***************************************************************************)
(* The render options translator: impl TryFrom<Options> for                *)
(* PdfPageRenderOptions.  `rejected` is the set of platform calls that the *)
(* platform rejects.  The result records the calls made, in order, each    *)
(* as <<name, arguments, accepted>>, and the properties of the platform    *)
(* object that were set, each with the arguments of its setter (<<>> is a  *)
(* property left unset).                                                   *)
(***************************************************************************)
TranslatorCalls ==
    {"new", "SetDestinationWidth", "SetDestinationHeight", "SetSourceRect",
     "SetBitmapEncoderId"}

UnsetRenderOptions ==
    [DestinationWidth |-> <<>>, DestinationHeight |-> <<>>,
     SourceRect |-> <<>>, BitmapEncoderId |-> <<>>]

\* PdfPageRenderOptions::new()?
NewRenderOptions(rejected) ==
    IF "new" \in rejected
    THEN [ok |-> FALSE, err |-> "new", op |-> UnsetRenderOptions,
          calls |-> << <<"new", <<>>, FALSE>> >>]
    ELSE [ok |-> TRUE, err |-> "", op |-> UnsetRenderOptions,
          calls |-> << <<"new", <<>>, TRUE>> >>]

\* op.Set...(arg)? : a rejected setter ends the translation with its error
Setter(st, name, prop, arg, rejected) ==
    IF ~st.ok THEN st
    ELSE IF name \in rejected
    THEN [st EXCEPT !.ok = FALSE, !.err = name,
                    !.calls = Append(@, <<name, arg, FALSE>>)]
    ELSE [st EXCEPT !.op[prop] = arg,
                    !.calls = Append(@, <<name, arg, TRUE>>)]

SetWidthStep(st, options, rejected) ==
    IF options.width > 0
    THEN Setter(st, "SetDestinationWidth", "DestinationWidth",
                <<options.width>>, rejected)
    ELSE st

\* the height step guarded by the width, as a copy of the step above it
MutSetHeightStep(st, options, rejected) ==
    IF options.width > 0
    THEN Setter(st, "SetDestinationHeight", "DestinationHeight",
                <<options.height>>, rejected)
    ELSE st

SetHeightStep(st, options, rejected) ==
    IF options.height > 0
    THEN Setter(st, "SetDestinationHeight", "DestinationHeight",
                <<options.height>>, rejected)
    ELSE st

\* the rectangle step guarded by a non-empty area instead of `ne(default)`
MutSetRectStep(st, options, rejected) ==
    IF options.rect.width > 0 /\ options.rect.height > 0
    THEN Setter(st, "SetSourceRect", "SourceRect",
                FoundationRect(options.rect), rejected)
    ELSE st

SetRectStep(st, options, rejected) ==
    IF options.rect # RectDefault
    THEN Setter(st, "SetSourceRect", "SourceRect",
                FoundationRect(options.rect), rejected)
    ELSE st

SetEncoderStep(st, options, rejected) ==
    Setter(st, "SetBitmapEncoderId", "BitmapEncoderId",
           <<guid(options.format)>>, rejected)

TryFrom(options, rejected) ==
    LET s0 == NewRenderOptions(rejected)
        s1 == SetWidthStep(s0, options, rejected)
        s2 == SetHeightStep(s1, options, rejected)
        s3 == SetRectStep(s2, options, rejected)
    IN  SetEncoderStep(s3, options, rejected)

(***************************************************************************)
(* State.                                                                  *)
(*   "doc" is the operation that creates the PdfDocument (load, open or    *)
(*   open_async); "a" and "b" are render calls on that document; "caller"  *)
(*   is the code that calls get_page, page_count and size itself and owns  *)
(*   the PdfPage values it gets.                                           *)
(***************************************************************************)
Calls == {"a", "b"}
Procs == {"doc", "caller"} \cup Calls

VARIABLES
    pc,          \* position of each operation in its code
    entry,       \* the public function each operation was entered by
    wait,        \* how the operation waits now: "none", "blocking", "suspended"
    op,          \* its platform asynchronous operation: "none", "running", "ok", "err"
    trace,       \* the platform calls it has made, in order: <<name, data, accepted>>
    ret,         \* the value it returns (returned once pc is "done" or "failed")
    options,     \* the Options of each render call
    translated,  \* the result of options.try_into() in render()
    page,        \* the PdfPage owned by each render call and its platform handle
    output,      \* the output stream of each render call
    docState,    \* the PdfDocument: "none", "live", "released"
    held,        \* the PdfPage values the caller got from get_page
    tOptions,    \* translator alone: the Options given
    tRejected,   \* translator alone: the platform calls rejected
    tResult      \* translator alone: the result of try_from

procVars == <<pc, entry, wait, op, trace, ret>>
callVars == <<options, translated, page, output>>
tVars == <<tOptions, tRejected, tResult>>
vars == <<pc, entry, wait, op, trace, ret, options, translated, page, output,
          docState, held, tOptions, tRejected, tResult>>

NoRet == [kind |-> "none"]
\* PdfThumbError::Windows, made by `?` from the windows::core::Error of `cause`
WindowsError(cause, phase) == [kind |-> "Windows", cause |-> cause, phase |-> phase]
NoTranslation == [ok |-> FALSE, err |-> "", op |-> UnsetRenderOptions, calls |-> <<>>]
NoPage == [state |-> "none", index |-> 0, closes |-> 0, stale |-> 0]
NoStream ==
    [state |-> "none", size |-> U64(0, 0), content |-> <<>>, loaded |-> U64(0, 0)]

\* Ok(Self { doc })
OkRet == [kind |-> "Ok"]
\* Ok(buf)
OkBuf(len, content) == [kind |-> "Ok", len |-> len, content |-> content]

Returned(p) == pc[p] \in {"done", "failed"}

(***************************************************************************)
(* The shapes of a step of the wrapper's code.                             *)
(***************************************************************************)
Made(p, name, data, ok) == [trace EXCEPT ![p] = Append(@, <<name, data, ok>>)]

\* a platform call whose error is dropped (`.ok()` in place of `?`)
MutStep(p, name, data, ok, next) ==
    /\ trace' = Made(p, name, data, ok)
    /\ pc' = [pc EXCEPT ![p] = next]
    /\ ret' = [ret EXCEPT ![p] = IF next = "done" THEN OkRet ELSE @]

\* `x.name(data)?`: a platform call; its error leaves the function at once
Step(p, name, data, ok, next) ==
    /\ trace' = Made(p, name, data, ok)
    /\ pc' = [pc EXCEPT ![p] = IF ok THEN next ELSE "failed"]
    /\ ret' = [ret EXCEPT ![p] =
                 IF ~ok THEN WindowsError(name, "call")
                 ELSE IF next = "done" THEN OkRet ELSE @]

\* `x.nameAsync(data)?` followed by `.get()` (how = "blocking") or `.await`
\* (how = "suspended"): the operation is started and then waited for
Issue(p, name, data, ok, next, how) ==
    /\ Step(p, name, data, ok, next)
    /\ op' = [op EXCEPT ![p] = IF ok THEN "running" ELSE @]
    /\ wait' = [wait EXCEPT ![p] = IF ok THEN how ELSE @]

\* `.get()?` / `.await?` returns once the platform has completed the operation
Resume(p, name, next) ==
    /\ op[p] \in {"ok", "err"}
    /\ trace' = Made(p, name, <<>>, op[p] = "ok")
    /\ pc' = [pc EXCEPT ![p] = IF op[p] = "ok" THEN next ELSE "failed"]
    /\ ret' = [ret EXCEPT ![p] =
                 IF op[p] # "ok" THEN WindowsError(name, "completion")
                 ELSE IF next = "done" THEN OkRet ELSE @]
    /\ op' = [op EXCEPT ![p] = "none"]
    /\ wait' = [wait EXCEPT ![p] = "none"]

\* the thread of operation p is blocked on a platform completion
ThreadBlocked(p) == wait[p] = "blocking" /\ op[p] = "running"
\* the task of operation p is suspended on a platform completion
Suspended(p) == wait[p] = "suspended" /\ op[p] = "running"

(***************************************************************************)
(* PdfDocument::load, open, open_async, as the list of their steps.        *)
(***************************************************************************)
Row(at, kind, name, how, next) ==
    [at |-> at, kind |-> kind, name |-> name, how |-> how, next |-> next]

\* load issuing the document load while the flush is still running
MutLoadCode ==
    << Row("load_stream", "call", "InMemoryRandomAccessStream::new", "", "load_writer"),
       Row("load_writer", "call", "CreateDataWriter", "", "load_write"),
       Row("load_write", "call", "WriteBytes", "", "load_store"),
       Row("load_store", "issue", "StoreAsync", "blocking", "load_store_wait"),
       Row("load_store_wait", "wait", "StoreAsync.completed", "", "load_flush"),
       Row("load_flush", "issue", "FlushAsync", "blocking", "load_doc"),
       Row("load_doc", "issue", "LoadFromStreamAsync", "blocking", "load_doc_wait"),
       Row("load_doc_wait", "wait", "LoadFromStreamAsync.completed", "", "done") >>

\* PdfDocument::load
LoadCode ==
    << Row("load_stream", "call", "InMemoryRandomAccessStream::new", "", "load_writer"),
       Row("load_writer", "call", "CreateDataWriter", "", "load_write"),
       Row("load_write", "call", "WriteBytes", "", "load_store"),
       Row("load_store", "issue", "StoreAsync", "blocking", "load_store_wait"),
       Row("load_store_wait", "wait", "StoreAsync.completed", "", "load_flush"),
       Row("load_flush", "issue", "FlushAsync", "blocking", "load_flush_wait"),
       Row("load_flush_wait", "wait", "FlushAsync.completed", "", "load_detach"),
       Row("load_detach", "call", "DetachStream", "", "load_doc"),
       Row("load_doc", "issue", "LoadFromStreamAsync", "blocking", "load_doc_wait"),
       Row("load_doc_wait", "wait", "LoadFromStreamAsync.completed", "", "done") >>

\* PdfDocument::open, with get_file and open
OpenCode ==
    << Row("open_file", "issue", "GetFileFromPathAsync", "blocking", "open_file_wait"),
       Row("open_file_wait", "wait", "GetFileFromPathAsync.completed", "", "open_doc"),
       Row("open_doc", "issue", "LoadFromFileAsync", "blocking", "open_doc_wait"),
       Row("open_doc_wait", "wait", "LoadFromFileAsync.completed", "", "done") >>

\* PdfDocument::open_async, with get_file and open
OpenAsyncCode ==
    << Row("aopen_file", "issue", "GetFileFromPathAsync", "suspended", "aopen_file_wait"),
       Row("aopen_file_wait", "wait", "GetFileFromPathAsync.completed", "", "aopen_doc"),
       Row("aopen_doc", "issue", "LoadFromFileAsync", "suspended", "aopen_doc_wait"),
       Row("aopen_doc_wait", "wait", "LoadFromFileAsync.completed", "", "done") >>

DocEntries == {"load", "open", "open_async"}

DocCode(e) ==
    CASE e = "load" -> LoadCode
      [] e = "open" -> OpenCode
      [] e = "open_async" -> OpenAsyncCode

\* the caller enters load, open or open_async
DocEnter(e) ==
    /\ pc["doc"] = "idle"
    /\ entry' = [entry EXCEPT !["doc"] = e]
    /\ pc' = [pc EXCEPT !["doc"] = DocCode(e)[1].at]
    /\ UNCHANGED <<wait, op, trace, ret, callVars, docState, held, tVars>>

\* one step of load / open / open_async; Ok(Self { doc }) after the last one
DocStep ==
    /\ entry["doc"] \in DocEntries
    /\ \E i \in DOMAIN DocCode(entry["doc"]) :
         LET s == DocCode(entry["doc"])[i] IN
         /\ pc["doc"] = s.at
         /\ \/ /\ s.kind = "call"
               /\ \E ok \in BOOLEAN : Step("doc", s.name, <<>>, ok, s.next)
               /\ UNCHANGED <<op, wait>>
            \/ /\ s.kind = "issue"
               /\ \E ok \in BOOLEAN : Issue("doc", s.name, <<>>, ok, s.next, s.how)
            \/ /\ s.kind = "wait"
               /\ Resume("doc", s.name, s.next)
         /\ docState' = IF pc'["doc"] = "done" THEN "live" ELSE docState
    /\ UNCHANGED <<entry, callVars, held, tVars>>

\* the platform completes the asynchronous operation of load / open
DocOpCompleted ==
    /\ op["doc"] = "running"
    /\ \E ok \in BOOLEAN : op' = [op EXCEPT !["doc"] = IF ok THEN "ok" ELSE "err"]
    /\ UNCHANGED <<pc, entry, wait, trace, ret, callVars, docState, held, tVars>>

(***************************************************************************)
(* The render calls: thumb, thumb_async, thumb_with_options,               *)
(* thumb_with_options_async, with get_page, render, read_bytes and the     *)
(* Drop of PdfPage.                                                        *)
(***************************************************************************)
RenderEntries ==
    {"thumb", "thumb_async", "thumb_with_options", "thumb_with_options_async"}

\* the sizes the platform reports for a rendered output stream
StreamSizes == {U64(0, 3), U64(1, 3)}

\* a rectangle other than the zero rectangle
SomeRect == [x |-> 0, y |-> 0, width |-> 1, height |-> 1]

\* the Options the callers of thumb_with_options[_async] pass
CallOptions ==
    [width : {0, MaxDim}, height : {0}, rect : {RectDefault, SomeRect},
     page : 0..NumPages, format : {"Png", "Jpeg"}]

\* thumb with Options that ask for the second page
MutThumbOptions == [OptionsDefault EXCEPT !.page = 1]

\* thumb / thumb_async: `let options = Options::default();`
ThumbOptions == OptionsDefault

\* PdfDocument::thumb_with_options: the statements of its body in their
\* order, each with the place of the call where the statement ends and the
\* place the call is at after it.  get_page and the stream allocation are
\* one platform call each; render runs from translate to drop_page and
\* returns the render operation, which `.get()` waits for; read_bytes runs
\* from read_input to read_buf and its result is the result of the call.
ThumbWithOptionsCode ==
    << Row("get_page", "call", "get_page", "", "alloc"),
       Row("alloc", "call", "InMemoryRandomAccessStream::new", "", "translate"),
       Row("drop_page", "call", "render", "", "render_wait"),
       Row("render_wait", "wait", ".get()", "blocking", "read_input"),
       Row("read_buf", "call", "read_bytes", "", "done") >>

\* thumb_with_options_async reading the stream without `.await` on the
\* render operation
MutThumbWithOptionsAsyncCode ==
    << Row("get_page", "call", "get_page", "", "alloc"),
       Row("alloc", "call", "InMemoryRandomAccessStream::new", "", "translate"),
       Row("drop_page", "call", "render", "", "read_input"),
       Row("render_wait", "wait", ".await", "suspended", "read_input"),
       Row("read_buf", "call", "read_bytes", "", "done") >>

\* PdfDocument::thumb_with_options_async: the statements of its body, with
\* `.await` on the render operation
ThumbWithOptionsAsyncCode ==
    << Row("get_page", "call", "get_page", "", "alloc"),
       Row("alloc", "call", "InMemoryRandomAccessStream::new", "", "translate"),
       Row("drop_page", "call", "render", "", "render_wait"),
       Row("render_wait", "wait", ".await", "suspended", "read_input"),
       Row("read_buf", "call", "read_bytes", "", "done") >>

\* the body an entry runs: thumb is `self.thumb_with_options(Options::default())`
\* and thumb_async is `self.thumb_with_options_async(Options::default()).await`
CallCode(e) ==
    CASE e = "thumb" -> ThumbWithOptionsCode
      [] e = "thumb_with_options" -> ThumbWithOptionsCode
      [] e = "thumb_async" -> ThumbWithOptionsAsyncCode
      [] e = "thumb_with_options_async" -> ThumbWithOptionsAsyncCode

\* the statement of the body of e that ends at the place `at`
Statement(e, at) ==
    CHOOSE r \in {CallCode(e)[i] : i \in DOMAIN CallCode(e)} : r.at = at

\* the place of a call of e after the statement that ends at `at`
After(e, at) == Statement(e, at).next

\* thumb_with_options_async with `.get()` in place of `.await`
MutRenderWait(e) == "blocking"

\* how thumb_with_options / thumb_with_options_async wait for the render
RenderWait(e) == Statement(e, "render_wait").how

\* how read_bytes waits for the reader's LoadAsync: `.get()`
LoadWait(e) == "blocking"

Enter(c, e, o) ==
    /\ docState = "live"
    /\ pc[c] = "idle"
    /\ entry' = [entry EXCEPT ![c] = e]
    /\ options' = [options EXCEPT ![c] = o]
    /\ pc' = [pc EXCEPT ![c] = CallCode(e)[1].at]
    /\ UNCHANGED <<wait, op, trace, ret, translated, page, output, docState,
                   held, tVars>>

Thumb(c) == Enter(c, "thumb", ThumbOptions)

ThumbAsync(c) == Enter(c, "thumb_async", ThumbOptions)

ThumbWithOptions(c) == \E o \in CallOptions : Enter(c, "thumb_with_options", o)

ThumbWithOptionsAsync(c) ==
    \E o \in CallOptions : Enter(c, "thumb_with_options_async", o)

\* the platform's GetPage accepts only the indices of the document's pages
GetPageAccepts(i) == i < NumPages

\* get_page wrapping whatever GetPage gave, its error not propagated
MutGetPage(c) ==
    /\ pc[c] = "get_page"
    /\ \E ok \in BOOLEAN :
         /\ ok => GetPageAccepts(options[c].page)
         /\ trace' = Made(c, "GetPage", <<options[c].page>>, ok)
         /\ pc' = [pc EXCEPT ![c] = "alloc"]
         /\ page' = [page EXCEPT ![c] =
                       [state |-> "open", index |-> options[c].page,
                        closes |-> 0, stale |-> 0]]
    /\ UNCHANGED <<entry, wait, op, ret, options, translated, output, docState,
                   held, tVars>>

\* get_page: `let page = self.doc.GetPage(page_index)?; Ok(PdfPage::new(page))`
GetPage(c) ==
    /\ pc[c] = "get_page"
    /\ \E ok \in BOOLEAN :
         /\ ok => GetPageAccepts(options[c].page)
         /\ Step(c, "GetPage", <<options[c].page>>, ok, After(entry[c], "get_page"))
         /\ page' = [page EXCEPT ![c] =
                       IF ok THEN [state |-> "open", index |-> options[c].page,
                                   closes |-> 0, stale |-> 0]
                       ELSE @]
    /\ UNCHANGED <<entry, wait, op, options, translated, output, docState,
                   held, tVars>>

\* the stream allocation's error leaving without the drop of `page`
MutAllocOutput(c) ==
    /\ pc[c] = "alloc"
    /\ \E ok \in BOOLEAN :
         /\ trace' = Made(c, "InMemoryRandomAccessStream::new", <<>>, ok)
         /\ pc' = [pc EXCEPT ![c] = IF ok THEN "translate" ELSE "failed"]
         /\ ret' = [ret EXCEPT ![c] =
                      IF ok THEN @
                      ELSE WindowsError("InMemoryRandomAccessStream::new", "call")]
         /\ output' = [output EXCEPT ![c].state = IF ok THEN "empty" ELSE @]
    /\ UNCHANGED <<entry, wait, op, options, translated, page, docState, held,
                   tVars>>

\* `let output = InMemoryRandomAccessStream::new()?;` its error drops `page`
AllocOutput(c) ==
    /\ pc[c] = "alloc"
    /\ \E ok \in BOOLEAN :
         /\ trace' = Made(c, "InMemoryRandomAccessStream::new", <<>>, ok)
         /\ pc' = [pc EXCEPT ![c] =
                     IF ok THEN After(entry[c], "alloc") ELSE "drop_page"]
         /\ ret' = [ret EXCEPT ![c] =
                      IF ok THEN @
                      ELSE WindowsError("InMemoryRandomAccessStream::new", "call")]
         /\ output' = [output EXCEPT ![c].state = IF ok THEN "empty" ELSE @]
    /\ UNCHANGED <<entry, wait, op, options, translated, page, docState, held,
                   tVars>>

\* render: `options.try_into()`, the argument of the render call
Translate(c) ==
    /\ pc[c] = "translate"
    /\ \E rejected \in SUBSET TranslatorCalls :
         /\ translated' = [translated EXCEPT ![c] = TryFrom(options[c], rejected)]
         /\ trace' = [trace EXCEPT ![c] = @ \o translated'[c].calls]
    /\ pc' = [pc EXCEPT ![c] = "issue"]
    /\ UNCHANGED <<entry, wait, op, ret, options, page, output, docState, held,
                   tVars>>

\* render: `.as_ref().ok()`: Some(&options) of Ok, None of Err
RenderArg(tr) == IF tr.ok THEN <<tr.op>> ELSE <<>>

\* render writing to one output stream that all the calls share
MutIssueRenderShared(c) ==
    /\ pc[c] = "issue"
    /\ \E ok \in BOOLEAN :
         /\ trace' = Made(c, "RenderWithOptionsToStreamAsync",
                          RenderArg(translated[c]), ok)
         /\ op' = [op EXCEPT ![c] = IF ok THEN "running" ELSE @]
         /\ ret' = [ret EXCEPT ![c] =
                      IF ok THEN @
                      ELSE WindowsError("RenderWithOptionsToStreamAsync", "call")]
         /\ output' = [x \in Calls |->
                         IF ok /\ output[x].state # "none"
                         THEN [output[x] EXCEPT !.content =
                                 <<page[c].index, RenderArg(translated[c])>>]
                         ELSE output[x]]
    /\ page' = [page EXCEPT ![c].stale =
                  IF page[c].closes > 0 THEN @ + 1 ELSE @]
    /\ pc' = [pc EXCEPT ![c] = "drop_page"]
    /\ UNCHANGED <<entry, wait, options, translated, docState, held, tVars>>

\* render letting go of the page before it issues the render on it
MutIssueRenderAfterClose(c) ==
    /\ pc[c] = "issue"
    /\ \E ok \in BOOLEAN :
         /\ trace' = [trace EXCEPT ![c] =
                        @ \o << <<"Close", <<>>, TRUE>>,
                                <<"RenderWithOptionsToStreamAsync",
                                  RenderArg(translated[c]), ok>> >>]
         /\ op' = [op EXCEPT ![c] = IF ok THEN "running" ELSE @]
         /\ ret' = [ret EXCEPT ![c] =
                      IF ok THEN @
                      ELSE WindowsError("RenderWithOptionsToStreamAsync", "call")]
         /\ output' = [output EXCEPT ![c].content =
                         IF ok THEN <<page[c].index, RenderArg(translated[c])>>
                         ELSE @]
         /\ pc' = [pc EXCEPT ![c] = IF ok THEN "render_wait" ELSE "failed"]
    /\ page' = [page EXCEPT ![c].closes = @ + 1, ![c].state = "closed",
                            ![c].stale = @ + 1]
    /\ wait' = [wait EXCEPT ![c] = RenderWait(entry[c])]
    /\ UNCHANGED <<entry, options, translated, docState, held, tVars>>

\* render: `page.RenderWithOptionsToStreamAsync(output, ..).map_err(Into::into)`
IssueRender(c) ==
    /\ pc[c] = "issue"
    /\ \E ok \in BOOLEAN :
         /\ trace' = Made(c, "RenderWithOptionsToStreamAsync",
                          RenderArg(translated[c]), ok)
         /\ op' = [op EXCEPT ![c] = IF ok THEN "running" ELSE @]
         /\ ret' = [ret EXCEPT ![c] =
                      IF ok THEN @
                      ELSE WindowsError("RenderWithOptionsToStreamAsync", "call")]
         /\ output' = [output EXCEPT ![c].content =
                         IF ok THEN <<page[c].index, RenderArg(translated[c])>>
                         ELSE @]
    /\ page' = [page EXCEPT ![c].stale =
                  IF page[c].closes > 0 THEN @ + 1 ELSE @]
    /\ pc' = [pc EXCEPT ![c] = "drop_page"]
    /\ UNCHANGED <<entry, wait, options, translated, docState, held, tVars>>

\* impl Drop for PdfPage: `self.page.Close().ok();` when the owner of the
\* PdfPage leaves scope: thumb_with_options on the error of the stream
\* allocation, render at its end
DropPage(c) ==
    /\ pc[c] = "drop_page"
    /\ \E ok \in BOOLEAN :
         /\ trace' = Made(c, "Close", <<>>, ok)
         /\ page' = [page EXCEPT ![c].closes = @ + 1,
                                 ![c].state = IF ok THEN "closed" ELSE @]
    /\ pc' = [pc EXCEPT ![c] =
                IF ret[c].kind = "none" THEN After(entry[c], "drop_page")
                ELSE "failed"]
    /\ wait' = [wait EXCEPT ![c] =
                  IF ret[c].kind = "none" THEN RenderWait(entry[c]) ELSE @]
    /\ UNCHANGED <<entry, op, ret, options, translated, output, docState, held,
                   tVars>>

\* the platform completes the render operation
RenderCompleted(c) ==
    /\ pc[c] \in {"drop_page", "render_wait"}
    /\ op[c] = "running"
    /\ \E ok \in BOOLEAN, size \in StreamSizes :
         /\ op' = [op EXCEPT ![c] = IF ok THEN "ok" ELSE "err"]
         /\ output' = [output EXCEPT ![c].state = IF ok THEN "written" ELSE @,
                                     ![c].size = IF ok THEN size ELSE @]
    /\ UNCHANGED <<pc, entry, wait, trace, ret, options, translated, page,
                   docState, held, tVars>>

\* the call resuming only for a render that succeeded
MutRenderDoneOkOnly(c) ==
    /\ pc[c] = "render_wait"
    /\ op[c] = "ok"
    /\ Resume(c, "RenderWithOptionsToStreamAsync.completed", "read_input")
    /\ UNCHANGED <<entry, callVars, docState, held, tVars>>

\* `render(page, &output, options)?.get()?;` / `.await?;` returns
RenderDone(c) ==
    /\ pc[c] = "render_wait"
    /\ Resume(c, "RenderWithOptionsToStreamAsync.completed",
              After(entry[c], "render_wait"))
    /\ UNCHANGED <<entry, callVars, docState, held, tVars>>

\* read_bytes: `let input = output.GetInputStreamAt(0)?;`
ReadGetInput(c) ==
    /\ pc[c] = "read_input"
    /\ \E ok \in BOOLEAN : Step(c, "GetInputStreamAt", <<0>>, ok, "read_reader")
    /\ UNCHANGED <<entry, wait, op, callVars, docState, held, tVars>>

\* read_bytes: `let reader = DataReader::CreateDataReader(&input)?;`
ReadCreateReader(c) ==
    /\ pc[c] = "read_reader"
    /\ \E ok \in BOOLEAN : Step(c, "CreateDataReader", <<>>, ok, "read_size")
    /\ UNCHANGED <<entry, wait, op, callVars, docState, held, tVars>>

\* read_bytes: `let size = output.Size()?;`
ReadSize(c) ==
    /\ pc[c] = "read_size"
    /\ \E ok \in BOOLEAN : Step(c, "Size", <<output[c].size>>, ok, "read_load")
    /\ UNCHANGED <<entry, wait, op, callVars, docState, held, tVars>>

\* read_bytes: `size as u32` keeps the low 32 bits
LoadCount(size) == size.lo

\* read_bytes: `reader.LoadAsync(size as u32)?.get()`
ReadLoad(c) ==
    /\ pc[c] = "read_load"
    /\ \E ok \in BOOLEAN :
         Issue(c, "LoadAsync", <<LoadCount(output[c].size)>>, ok, "load_wait",
               LoadWait(entry[c]))
    /\ UNCHANGED <<entry, callVars, docState, held, tVars>>

\* the platform completes the reader's load: at most the bytes asked for
LoadCompleted(c) ==
    /\ pc[c] = "load_wait"
    /\ op[c] = "running"
    /\ \E ok \in BOOLEAN :
         /\ op' = [op EXCEPT ![c] = IF ok THEN "ok" ELSE "err"]
         /\ output' = [output EXCEPT ![c].loaded =
                         IF ok THEN Min64(U64(0, LoadCount(output[c].size)),
                                       output[c].size)
                         ELSE @]
    /\ UNCHANGED <<pc, entry, wait, trace, ret, options, translated, page,
                   docState, held, tVars>>

\* read_bytes: `...get()?;` returns
ReadLoadDone(c) ==
    /\ pc[c] = "load_wait"
    /\ Resume(c, "LoadAsync.completed", "read_buf")
    /\ UNCHANGED <<entry, callVars, docState, held, tVars>>

\* read_bytes: `vec![0; size as usize]`, usize of 64 bits
BufLen(size) == size

\* read_bytes: `let mut buf = vec![0; size as usize]; reader.ReadBytes(&mut buf)?;
\* Ok(buf)`; the reader gives no more bytes than it has loaded
ReadBytes(c) ==
    /\ pc[c] = "read_buf"
    /\ \E ok \in BOOLEAN :
         /\ ok => Leq64(BufLen(output[c].size), output[c].loaded)
         /\ trace' = Made(c, "ReadBytes", <<BufLen(output[c].size)>>, ok)
         /\ pc' = [pc EXCEPT ![c] =
                     IF ok THEN After(entry[c], "read_buf") ELSE "failed"]
         /\ ret' = [ret EXCEPT ![c] =
                      IF ok THEN OkBuf(BufLen(output[c].size), output[c].content)
                      ELSE WindowsError("ReadBytes", "call")]
    /\ UNCHANGED <<entry, wait, op, callVars, docState, held, tVars>>

(***************************************************************************)
(* The caller's own use of the document and of its pages: get_page,        *)
(* page_count, PdfPage::size, and the drop of a PdfPage and of the         *)
(* PdfDocument.  get_page returns an owned PdfPage that borrows nothing    *)
(* from the PdfDocument.  A PdfPage derefs to its platform page, which the *)
(* caller can clone, wrap in a second PdfPage with PdfPage::new and close  *)
(* directly.  held lists the caller's PdfPages; `handle` names the         *)
(* platform page a PdfPage wraps by the place in held of the PdfPage that  *)
(* get_page made for it, and `closes` of that place counts the Close calls *)
(* made on the platform page.                                              *)
(***************************************************************************)
\* the caller makes at most MaxOps operations: the platform calls of its
\* trace and the PdfPages it made with PdfPage::new
CallerMay ==
    Len(trace["caller"]) + Cardinality({x \in DOMAIN held : held[x].handle # x})
        < MaxOps

HeldPages == {h \in DOMAIN held : held[h].state = "held"}

\* pub fn get_page(&self, page_index: u32) -> Result<PdfPage, PdfThumbError>
CallerGetPage ==
    /\ docState = "live"
    /\ CallerMay
    /\ \E i \in 0..NumPages, ok \in BOOLEAN :
         /\ ok => GetPageAccepts(i)
         /\ trace' = Made("caller", "GetPage", <<i>>, ok)
         /\ held' = IF ok
                    THEN Append(held, [state |-> "held", index |-> i,
                                       handle |-> Len(held) + 1, closes |-> 0])
                    ELSE held
         /\ ret' = [ret EXCEPT !["caller"] =
                      IF ok THEN [kind |-> "Ok", page |-> Len(held) + 1]
                      ELSE WindowsError("GetPage", "call")]
    /\ UNCHANGED <<pc, entry, wait, op, callVars, docState, tVars>>

\* pub fn page_count(&self) -> Result<u32, PdfThumbError>
CallerPageCount ==
    /\ docState = "live"
    /\ CallerMay
    /\ \E ok \in BOOLEAN :
         /\ trace' = Made("caller", "PageCount", <<>>, ok)
         /\ ret' = [ret EXCEPT !["caller"] =
                      IF ok THEN [kind |-> "Ok", count |-> NumPages]
                      ELSE WindowsError("PageCount", "call")]
    /\ UNCHANGED <<pc, entry, wait, op, callVars, docState, held, tVars>>

\* PdfPage::size
CallerPageSize(h) ==
    /\ h \in HeldPages
    /\ CallerMay
    /\ \E ok \in BOOLEAN :
         /\ trace' = Made("caller", "Size", <<held[h].handle>>, ok)
         /\ ret' = [ret EXCEPT !["caller"] =
                      IF ok THEN [kind |-> "Ok", sizeOf |-> held[h].handle]
                      ELSE WindowsError("Size", "call")]
    /\ UNCHANGED <<pc, entry, wait, op, callVars, docState, held, tVars>>

\* PdfPage::new on a clone of the platform page that a held PdfPage derefs
\* to: `PdfPage::new((*p).clone())`, a second PdfPage of the same page
\* (no platform call that can fail: the clone adds a reference)
CallerWrapPage(h) ==
    /\ h \in HeldPages
    /\ CallerMay
    /\ held' = Append(held, [state |-> "held", index |-> held[h].index,
                             handle |-> held[h].handle, closes |-> 0])
    /\ UNCHANGED <<procVars, callVars, docState, tVars>>

\* Close called on the platform page that a held PdfPage derefs to:
\* `p.Close()`
CallerClosePage(h) ==
    /\ h \in HeldPages
    /\ CallerMay
    /\ \E ok \in BOOLEAN : trace' = Made("caller", "Close", <<held[h].handle>>, ok)
    /\ held' = [held EXCEPT ![held[h].handle].closes = @ + 1]
    /\ UNCHANGED <<pc, entry, wait, op, ret, callVars, docState, tVars>>

\* impl Drop for PdfPage, of a PdfPage the caller owns
CallerDropPage(h) ==
    /\ h \in HeldPages
    /\ CallerMay
    /\ \E ok \in BOOLEAN : trace' = Made("caller", "Close", <<held[h].handle>>, ok)
    /\ held' = [held EXCEPT ![h].state = "dropped",
                            ![held[h].handle].closes = @ + 1]
    /\ UNCHANGED <<pc, entry, wait, op, ret, callVars, docState, tVars>>

\* the caller drops the PdfDocument: nothing borrows it but a running call
CallerDropDocument ==
    /\ docState = "live"
    /\ \A c \in Calls : pc[c] \in {"idle", "done", "failed"}
    /\ docState' = "released"
    /\ UNCHANGED <<procVars, callVars, held, tVars>>

CallerNext ==
    \/ CallerGetPage
    \/ CallerPageCount
    \/ \E h \in DOMAIN held : CallerPageSize(h)
    \/ \E h \in DOMAIN held : CallerWrapPage(h)
    \/ \E h \in DOMAIN held : CallerClosePage(h)
    \/ \E h \in DOMAIN held : CallerDropPage(h)
    \/ CallerDropDocument

(***************************************************************************)
(* Specification: the document is created, then one render call runs.      *)
(***************************************************************************)
Init ==
    /\ pc = [p \in Procs |-> "idle"]
    /\ entry = [p \in Procs |-> ""]
    /\ wait = [p \in Procs |-> "none"]
    /\ op = [p \in Procs |-> "none"]
    /\ trace = [p \in Procs |-> <<>>]
    /\ ret = [p \in Procs |-> NoRet]
    /\ options = [c \in Calls |-> OptionsDefault]
    /\ translated = [c \in Calls |-> NoTranslation]
    /\ page = [c \in Calls |-> NoPage]
    /\ output = [c \in Calls |-> NoStream]
    /\ docState = "none"
    /\ held = <<>>
    /\ tOptions = OptionsDefault
    /\ tRejected = {}
    /\ tResult = NoTranslation

DocNext ==
    \/ \E e \in DocEntries : DocEnter(e)
    \/ DocStep
    \/ DocOpCompleted

CallEnter(c) ==
    \/ Thumb(c)
    \/ ThumbAsync(c)
    \/ ThumbWithOptions(c)
    \/ ThumbWithOptionsAsync(c)

CallSteps(c) ==
    \/ GetPage(c)
    \/ AllocOutput(c)
    \/ Translate(c)
    \/ IssueRender(c)
    \/ DropPage(c)
    \/ RenderCompleted(c)
    \/ RenderDone(c)
    \/ ReadGetInput(c)
    \/ ReadCreateReader(c)
    \/ ReadSize(c)
    \/ ReadLoad(c)
    \/ LoadCompleted(c)
    \/ ReadLoadDone(c)
    \/ ReadBytes(c)

Next == DocNext \/ CallEnter("a") \/ CallSteps("a")

Spec == Init /\ [][Next]_vars

(***************************************************************************)
(* Properties of the render calls and of load / open.                      *)
(***************************************************************************)
AsyncEntries == {"thumb_async", "thumb_with_options_async", "open_async"}

\* the render operation of call c is issued and the platform has not completed it
RenderInFlight(c) == pc[c] \in {"drop_page", "render_wait"} /\ op[c] = "running"

\* the platform calls of operation p named `name`
CallsNamed(p, name) == {i \in DOMAIN trace[p] : trace[p][i][1] = name}

\* options.try_into() of call c has run and failed
TranslationFailed(c) == translated[c].calls # <<>> /\ ~translated[c].ok

\* C1: the page handle of a render call is closed only after the issued
\* render operation has completed: no state has the render in flight and the
\* page handle closed.
C1_PageClosedAfterRender ==
    \A c \in Calls : ~(RenderInFlight(c) /\ page[c].state = "closed")

\* C2: when the translation of the Options fails, no render is issued, no
\* buffer is returned and the call fails with the translation's error.
C2_TranslationErrorFailsCall ==
    \A c \in Calls :
        TranslationFailed(c) =>
            /\ CallsNamed(c, "RenderWithOptionsToStreamAsync") = {}
            /\ ret[c].kind # "Ok"
            /\ pc[c] # "issue" => ret[c] = WindowsError(translated[c].err, "call")

\* C3: Close is invoked on the page handle of every PdfPage made by get_page
\* exactly once on every exit path: never twice, and once when the call has
\* returned, whichever step failed, Close included.
C3_PageClosedExactlyOnce ==
    \A c \in Calls :
        /\ page[c].closes <= 1
        /\ Cardinality(CallsNamed(c, "Close")) = page[c].closes
        /\ page[c].state = "none" => page[c].closes = 0
        /\ (Returned(c) /\ page[c].state # "none") => page[c].closes = 1
        /\ (pc[c] \notin {"idle", "get_page", "alloc", "translate", "issue",
                          "drop_page"} /\ page[c].state # "none")
              => page[c].closes = 1

\* a call has returned an error after Close itself failed
C3_Witness ==
    \E c \in Calls :
        /\ pc[c] = "failed"
        /\ \E i \in CallsNamed(c, "Close") : ~trace[c][i][3]
        /\ \E i \in CallsNamed(c, "RenderWithOptionsToStreamAsync") : ~trace[c][i][3]
        /\ page[c].closes = 1

\* the steps whose failure ends the operation
AbortingSteps ==
    {"GetPage", "InMemoryRandomAccessStream::new",
     "RenderWithOptionsToStreamAsync", "RenderWithOptionsToStreamAsync.completed",
     "GetInputStreamAt", "CreateDataReader", "Size", "LoadAsync",
     "LoadAsync.completed", "ReadBytes",
     "CreateDataWriter", "WriteBytes", "StoreAsync", "StoreAsync.completed",
     "FlushAsync", "FlushAsync.completed", "DetachStream", "LoadFromStreamAsync",
     "LoadFromStreamAsync.completed", "GetFileFromPathAsync",
     "GetFileFromPathAsync.completed", "LoadFromFileAsync",
     "LoadFromFileAsync.completed"}

FailedAt(p, i) == trace[p][i][1] \in AbortingSteps /\ ~trace[p][i][3]

\* C4: when a step of a render call fails (page lookup, stream allocation,
\* render issuance, render completion, stream read) the call returns that
\* error and no buffer, and runs no later step but the close of the page;
\* when a step of load / open / open_async fails no later step runs and no
\* document is returned.
C4_FailureAborts ==
    \A p \in Procs : \A i \in DOMAIN trace[p] :
        FailedAt(p, i) =>
            /\ \A j \in DOMAIN trace[p] : j > i => (p \in Calls /\ trace[p][j][1] = "Close")
            /\ ret[p].kind = "Windows"
            /\ ret[p].cause = trace[p][i][1]
            /\ pc[p] \in {"failed", "drop_page"}
            /\ pc[p] = "drop_page" => \A j \in DOMAIN trace[p] : j <= i
            /\ op[p] # "running"
            /\ p = "doc" => docState # "live"

\* a render call has failed in read_bytes, after the page was closed
C4_Witness ==
    \E c \in Calls :
        /\ pc[c] = "failed"
        /\ ret[c] = WindowsError("Size", "call")
        /\ page[c].closes = 1

\* C5 as stated: in an async call the thread is never blocked on a platform
\* completion.
C5_AsyncNeverBlocks ==
    \A p \in Procs : entry[p] \in AsyncEntries => ~ThreadBlocked(p)

\* C5, amended: in an async call the waits for the render operation and for
\* the file and document operations of open_async are suspensions; the one
\* wait that blocks the thread is read_bytes' wait for the reader's load.
C5_AsyncBlocksOnlyInRead ==
    \A p \in Procs :
        entry[p] \in AsyncEntries =>
            /\ ThreadBlocked(p) => pc[p] = "load_wait"
            /\ pc[p] \in {"render_wait", "aopen_file_wait", "aopen_doc_wait"}
                  => wait[p] = "suspended"
            /\ pc[p] = "load_wait" => wait[p] = "blocking"

\* an async render call is suspended on its render operation
C5_Witness ==
    \E c \in Calls :
        /\ entry[c] = "thumb_with_options_async"
        /\ pc[c] = "render_wait"
        /\ Suspended(c)

(***************************************************************************)
(* Specification of the caller's own pages.                                *)
(***************************************************************************)
NextPages == DocNext \/ CallerNext

SpecPages == Init /\ [][NextPages]_vars

\* C7: every PdfPage the caller holds comes from a PdfDocument that has not
\* been released.
C7_NoPageOfReleasedDocument ==
    \A h \in DOMAIN held : held[h].state = "held" => docState # "released"

(***************************************************************************)
(* Specification of the translator alone: try_from applied to every        *)
(* Options value of the bounds, under every set of rejected calls.         *)
(***************************************************************************)
Coords == {0, 1, MaxCoord}

TranslateOptions ==
    [width : 0..MaxDim, height : 0..MaxDim,
     rect : [x : {0, 1}, y : {0}, width : Coords, height : {0, 1}],
     page : {0}, format : ImageFormats]

InitTranslate ==
    /\ pc = [p \in Procs |-> "idle"]
    /\ entry = [p \in Procs |-> ""]
    /\ wait = [p \in Procs |-> "none"]
    /\ op = [p \in Procs |-> "none"]
    /\ trace = [p \in Procs |-> <<>>]
    /\ ret = [p \in Procs |-> NoRet]
    /\ options = [c \in Calls |-> OptionsDefault]
    /\ translated = [c \in Calls |-> NoTranslation]
    /\ page = [c \in Calls |-> NoPage]
    /\ output = [c \in Calls |-> NoStream]
    /\ docState = "none"
    /\ held = <<>>
    /\ tOptions \in TranslateOptions
    /\ tRejected \in SUBSET TranslatorCalls
    /\ tResult = NoTranslation

\* options.try_into()
TryInto ==
    /\ tResult = NoTranslation
    /\ tResult' = TryFrom(tOptions, tRejected)
    /\ UNCHANGED <<procVars, callVars, docState, held, tOptions, tRejected>>

SpecTranslate == InitTranslate /\ [][TryInto]_vars

Translated == tResult # NoTranslation

TCallsNamed(name) == {i \in DOMAIN tResult.calls : tResult.calls[i][1] = name}

\* the translation was not ended by the rejection of one of `earlier`
Reached(earlier) == tResult.ok \/ tResult.err \notin earlier

\* C8: the translator sets the source rectangle if and only if Options.rect
\* is not the all-zero rectangle; for the all-zero rectangle the platform
\* options that are produced have no source rectangle.
C8_RectSetIffNotZero ==
    Translated =>
        /\ TCallsNamed("SetSourceRect") # {} => tOptions.rect # RectDefault
        /\ Reached({"new", "SetDestinationWidth", "SetDestinationHeight"}) =>
              (TCallsNamed("SetSourceRect") # {}
                  <=> (\/ tOptions.rect.x # 0 \/ tOptions.rect.y # 0
                       \/ tOptions.rect.width # 0 \/ tOptions.rect.height # 0))
        /\ tResult.ok =>
              (tResult.op.SourceRect = <<>>
                  <=> (/\ tOptions.rect.x = 0 /\ tOptions.rect.y = 0
                       /\ tOptions.rect.width = 0 /\ tOptions.rect.height = 0))

\* a translation succeeded for a rectangle that is zero in all but one field
C8_Witness ==
    /\ Translated
    /\ tResult.ok
    /\ tOptions.rect = [x |-> 1, y |-> 0, width |-> 0, height |-> 0]
    /\ tResult.op.SourceRect = <<1, 0, 0, 0>>

\* C9: the translator sets the destination width exactly when
\* Options.width > 0 and the destination height exactly when
\* Options.height > 0, each to the value given and whatever the other one
\* is; a dimension of 0 is never passed to the platform.
C9_DimensionSetIffPositive ==
    Translated =>
        /\ \A i \in TCallsNamed("SetDestinationWidth") :
              tResult.calls[i][2] = <<tOptions.width>> /\ tOptions.width > 0
        /\ \A i \in TCallsNamed("SetDestinationHeight") :
              tResult.calls[i][2] = <<tOptions.height>> /\ tOptions.height > 0
        /\ Reached({"new"}) =>
              (TCallsNamed("SetDestinationWidth") # {} <=> tOptions.width > 0)
        /\ Reached({"new", "SetDestinationWidth"}) =>
              (TCallsNamed("SetDestinationHeight") # {} <=> tOptions.height > 0)
        /\ tResult.ok =>
              /\ tResult.op.DestinationWidth =
                    IF tOptions.width > 0 THEN <<tOptions.width>> ELSE <<>>
              /\ tResult.op.DestinationHeight =
                    IF tOptions.height > 0 THEN <<tOptions.height>> ELSE <<>>

\* a translation succeeded with the height given and the width left at 0
C9_Witness ==
    /\ Translated
    /\ tResult.ok
    /\ tOptions.width = 0
    /\ tOptions.height = MaxDim
    /\ tResult.op.DestinationHeight = <<MaxDim>>
    /\ tResult.op.DestinationWidth = <<>>

\* the encoder identifier of each format
EncoderOf ==
    [f \in ImageFormats |->
        CASE f = "Png"  -> "PNG_ENCORDER_ID"
          [] f = "Bmp"  -> "BITMAP_ENCODER_ID"
          [] f = "Jpeg" -> "JPEG_ENCORDER_ID"
          [] f = "Tiff" -> "TIFF_ENCODER_ID"
          [] f = "Gif"  -> "GIF_ENCODER_ID"]

\* C10: every successful translation sets the encoder identifier exactly
\* once, to the identifier of Options.format, whatever width, height and
\* rect are.
C10_EncoderSetOnce ==
    (Translated /\ tResult.ok) =>
        /\ Cardinality(TCallsNamed("SetBitmapEncoderId")) = 1
        /\ \A i \in TCallsNamed("SetBitmapEncoderId") :
              /\ tResult.calls[i] = <<"SetBitmapEncoderId", <<EncoderOf[tOptions.format]>>, TRUE>>
              /\ i = Len(tResult.calls)
        /\ tResult.op.BitmapEncoderId = <<EncoderOf[tOptions.format]>>

\* a translation succeeded for Jpeg with width, height and rect all given
C10_Witness ==
    /\ Translated
    /\ tResult.ok
    /\ tOptions.format = "Jpeg"
    /\ tOptions.width > 0 /\ tOptions.height > 0 /\ tOptions.rect # RectDefault
    /\ tResult.op.BitmapEncoderId = <<"JPEG_ENCORDER_ID">>

(***************************************************************************)
(* Specification of a pair of render calls, one after the other: thumb or  *)
(* thumb_async, then thumb_with_options or thumb_with_options_async.       *)
(***************************************************************************)
\* the Options given to the second call: Options::default() and another
PairOptions == {OptionsDefault, [OptionsDefault EXCEPT !.page = 1, !.width = MaxDim]}

PairEnterFirst == Thumb("a") \/ ThumbAsync("a")

PairEnterSecond ==
    /\ Returned("a")
    /\ \E o \in PairOptions :
         Enter("b", IF entry["a"] = "thumb" THEN "thumb_with_options"
                    ELSE "thumb_with_options_async", o)

NextPair ==
    \/ DocEnter("open")
    \/ DocStep
    \/ DocOpCompleted
    \/ PairEnterFirst
    \/ PairEnterSecond
    \/ CallSteps("a")
    \/ CallSteps("b")

SpecPair == Init /\ [][NextPair]_vars

\* the platform's answers to the first n calls of p and q are the same
SameResponses(p, q, n) ==
    \A i \in 1..n :
        /\ trace[p][i][3] = trace[q][i][3]
        /\ (trace[p][i][1] = "Size" /\ trace[q][i][1] = "Size")
              => trace[p][i][2] = trace[q][i][2]

\* the n-th call of p and of q is the same call with the same arguments
SameCall(p, q, n) ==
    /\ trace[p][n][1] = trace[q][n][1]
    /\ trace[p][n][1] # "Size" => trace[p][n][2] = trace[q][n][2]

\* the platform options of a render with no width, height or rectangle and
\* the PNG encoder
PngWholePage ==
    [DestinationWidth |-> <<>>, DestinationHeight |-> <<>>, SourceRect |-> <<>>,
     BitmapEncoderId |-> <<"PNG_ENCORDER_ID">>]

\* C6: thumb and thumb_with_options with Options::default() (thumb_async and
\* thumb_with_options_async likewise) make the same platform calls with the
\* same arguments as long as the platform answers the same, and then return
\* the same result; the calls of thumb ask for page 0, set no destination
\* width or height and no source rectangle, and set the PNG encoder.
C6_ThumbIsDefaultOptions ==
    /\ \A n \in 1..Len(trace["b"]) :
          (/\ options["b"] = [width |-> 0, height |-> 0,
                              rect |-> [x |-> 0, y |-> 0, width |-> 0, height |-> 0],
                              page |-> 0, format |-> "Png"]
           /\ n <= Len(trace["a"])
           /\ SameResponses("a", "b", n - 1))
              => SameCall("a", "b", n)
    /\ (/\ options["b"] = [width |-> 0, height |-> 0,
                           rect |-> [x |-> 0, y |-> 0, width |-> 0, height |-> 0],
                           page |-> 0, format |-> "Png"]
        /\ Returned("b")
        /\ Len(trace["a"]) = Len(trace["b"])
        /\ SameResponses("a", "b", Len(trace["a"])))
          => ret["a"] = ret["b"]
    /\ \A i \in DOMAIN trace["a"] :
          /\ trace["a"][i][1] = "GetPage" => trace["a"][i][2] = <<0>>
          /\ trace["a"][i][1] \notin
                {"SetDestinationWidth", "SetDestinationHeight", "SetSourceRect"}
          /\ trace["a"][i][1] = "SetBitmapEncoderId"
                => trace["a"][i][2] = <<"PNG_ENCORDER_ID">>
          /\ (trace["a"][i][1] = "RenderWithOptionsToStreamAsync"
              /\ translated["a"].ok) => trace["a"][i][2] = <<PngWholePage>>
    /\ (ret["a"].kind = "Ok" /\ translated["a"].ok)
          => ret["a"].content = <<0, <<PngWholePage>> >>

\* thumb and thumb_with_options(Options::default()) have both returned a
\* buffer, after the same platform calls
C6_Witness ==
    /\ entry["a"] = "thumb"
    /\ entry["b"] = "thumb_with_options"
    /\ options["b"] = OptionsDefault
    /\ pc["a"] = "done" /\ pc["b"] = "done"
    /\ translated["a"].ok
    /\ trace["a"] = trace["b"]
    /\ ret["a"] = ret["b"]

(***************************************************************************)
(* Further properties of the render calls.                                 *)
(***************************************************************************)
\* C11: for a page index that is not below the number of pages, get_page
\* fails with the platform's error and makes no PdfPage; the render call
\* with that index fails with that error without allocating an output
\* stream, issuing a render or closing a page handle.
C11_OutOfRangePageFails ==
    \A c \in Calls :
        (options[c].page >= NumPages /\ pc[c] \notin {"idle", "get_page"}) =>
            /\ pc[c] = "failed"
            /\ ret[c] = WindowsError("GetPage", "call")
            /\ trace[c] = << <<"GetPage", <<options[c].page>>, FALSE>> >>
            /\ page[c] = NoPage
            /\ output[c] = NoStream
            /\ op[c] = "none"

\* a render call for the index just past the last page has failed
C11_Witness ==
    \E c \in Calls :
        /\ entry[c] = "thumb_with_options"
        /\ options[c].page = NumPages
        /\ pc[c] = "failed"
        /\ ret[c].cause = "GetPage"

(***************************************************************************)
(* Specification of two render calls that run at the same time on one      *)
(* document, for different pages: their steps interleave in every order.   *)
(***************************************************************************)
\* the page each of the two calls asks for
PageOf(c) == IF c = "a" THEN 0 ELSE 1

ConcurrentEnter(c) ==
    \E e \in {"thumb_with_options", "thumb_with_options_async"} :
        Enter(c, e, [OptionsDefault EXCEPT !.page = PageOf(c)])

NextConcurrent ==
    \/ DocEnter("open")
    \/ DocStep
    \/ DocOpCompleted
    \/ ConcurrentEnter("a")
    \/ ConcurrentEnter("b")
    \/ CallSteps("a")
    \/ CallSteps("b")

SpecConcurrent == Init /\ [][NextConcurrent]_vars

\* C12: when two render calls for different pages of one document run at
\* the same time, in every interleaving each call has the page handle of the
\* page it asked for, closes it itself and once, renders that page into its
\* own stream and returns the content rendered from that page.
C12_ConcurrentCallsIndependent ==
    \A c \in Calls :
        /\ page[c].state # "none" => page[c].index = options[c].page
        /\ page[c].closes = Cardinality(CallsNamed(c, "Close"))
        /\ page[c].closes <= 1
        /\ output[c].content # <<>> =>
              output[c].content = <<options[c].page, RenderArg(translated[c])>>
        /\ ret[c].kind = "Ok" =>
              /\ pc[c] = "done"
              /\ ret[c].content = <<options[c].page, RenderArg(translated[c])>>
        /\ \A i \in CallsNamed(c, "GetPage") : trace[c][i][2] = <<options[c].page>>

\* both renders are in flight, the first call has closed its page and the
\* page of the second call is open
C12_Witness ==
    /\ options["a"].page = 0 /\ options["b"].page = 1
    /\ RenderInFlight("a") /\ RenderInFlight("b")
    /\ page["a"].state = "closed"
    /\ page["b"].state = "open" /\ page["b"].closes = 0
    /\ output["a"].content[1] = 0 /\ output["b"].content[1] = 1

(***************************************************************************)
(* Further properties of the caller's own pages.                           *)
(***************************************************************************)
\* the step drops the PdfPage h
Drops(h) ==
    /\ h \in DOMAIN held
    /\ held[h].state = "held"
    /\ held'[h].state = "dropped"

\* the PdfPages the caller got from get_page: each wraps the platform page
\* that get_page made for it
FromGetPage == {x \in DOMAIN held : held[x].handle = x}

\* C13: the drop of a PdfPage closes that page's handle, once, and nothing
\* else: the PdfDocument and every other PdfPage got from it are as they
\* were, so page_count, get_page and size on them go on as before.
C13_DropTouchesOnlyItsPage ==
    [][\A h \in DOMAIN held :
          Drops(h) =>
              /\ held'[held[h].handle].closes = held[held[h].handle].closes + 1
              /\ held'[h].index = held[h].index
              /\ docState' = docState
              /\ DOMAIN held' = DOMAIN held
              /\ \A x \in FromGetPage : x # h => held'[x] = held[x]
              /\ trace'["caller"] = Append(trace["caller"], trace'["caller"][Len(trace'["caller"])])
              /\ trace'["caller"][Len(trace'["caller"])][1] = "Close"
              /\ trace'["caller"][Len(trace'["caller"])][2] = <<held[h].handle>>]_vars

(***************************************************************************)
(* Further properties of open and of read_bytes.                           *)
(***************************************************************************)
\* C14: when open or open_async fails because the file at the path cannot
\* be read, the error returned is of the I/O kind.
C14_UnreadableFileIsIoError ==
    (/\ entry["doc"] \in {"open", "open_async"}
     /\ pc["doc"] = "failed"
     /\ ret["doc"].cause \in {"GetFileFromPathAsync", "GetFileFromPathAsync.completed"})
        => ret["doc"].kind = "Io"

\* C15: for every size the output stream reports, read_bytes asks the reader
\* to load exactly that many bytes, and that count is the length of the
\* buffer it returns.
C15_LoadsExactlySize ==
    \A c \in Calls :
        /\ \A i \in CallsNamed(c, "LoadAsync") :
              U64(0, trace[c][i][2][1]) = output[c].size
        /\ \A i \in CallsNamed(c, "ReadBytes") :
              trace[c][i][2] = <<output[c].size>>
        /\ ret[c].kind = "Ok" => ret[c].len = output[c].size

(***************************************************************************)
(* The order of the steps of one render call.                              *)
(***************************************************************************)
ReadCalls ==
    {"GetInputStreamAt", "CreateDataReader", "Size", "LoadAsync",
     "LoadAsync.completed", "ReadBytes"}

ReadPcs ==
    {"read_input", "read_reader", "read_size", "read_load", "load_wait", "read_buf"}

\* every call named in `first` that p made comes before every one in `then`
Before(p, first, then) ==
    \A i, j \in DOMAIN trace[p] :
        (trace[p][i][1] \in first /\ trace[p][j][1] \in then) => i < j

\* p has made the call `name` and the platform accepted it
Accepted(p, name) == \E i \in CallsNamed(p, name) : trace[p][i][3]

\* C16: in one render call the steps come in the order options translated,
\* render issued, render complete, buffer extracted, done; each happens at
\* most once; none is missing when the call is done, the translation of the
\* options among them: a call that is done has translated its options with
\* success; a step starts only when the one before it has finished; a
\* failed call takes no further step.
C16_StepsInOrder ==
    \A c \in Calls :
        /\ \A i, j \in DOMAIN trace[c] : trace[c][i][1] = trace[c][j][1] => i = j
        /\ Before(c, TranslatorCalls, {"RenderWithOptionsToStreamAsync"})
        /\ Before(c, {"RenderWithOptionsToStreamAsync"},
                  {"RenderWithOptionsToStreamAsync.completed"})
        /\ Before(c, {"RenderWithOptionsToStreamAsync.completed"}, ReadCalls)
        /\ CallsNamed(c, "RenderWithOptionsToStreamAsync") # {}
              => /\ pc[c] # "issue"
                 /\ Accepted(c, "InMemoryRandomAccessStream::new")
                 /\ CallsNamed(c, "new") # {}
        /\ CallsNamed(c, "RenderWithOptionsToStreamAsync.completed") # {}
              => Accepted(c, "RenderWithOptionsToStreamAsync")
        /\ (pc[c] \in ReadPcs \/ \E n \in ReadCalls : CallsNamed(c, n) # {})
              => /\ Accepted(c, "RenderWithOptionsToStreamAsync.completed")
                 /\ output[c].state = "written"
        /\ CallsNamed(c, "ReadBytes") # {} => Accepted(c, "LoadAsync.completed")
        /\ pc[c] = "done" <=> Accepted(c, "ReadBytes")
        /\ pc[c] = "done" =>
              /\ ret[c].kind = "Ok"
              /\ trace[c][Len(trace[c])][1] = "ReadBytes"
              /\ translated[c].ok
              /\ \A i \in DOMAIN trace[c] :
                    trace[c][i][1] \in TranslatorCalls => trace[c][i][3]
              /\ \A n \in {"InMemoryRandomAccessStream::new", "new",
                           "SetBitmapEncoderId",
                           "RenderWithOptionsToStreamAsync",
                           "RenderWithOptionsToStreamAsync.completed"} \cup ReadCalls :
                    CallsNamed(c, n) # {}
        /\ pc[c] = "failed" => (ret[c].kind = "Windows" /\ op[c] # "running")
        /\ pc[c] \in {"done", "failed"} => ~ENABLED CallSteps(c)

(***************************************************************************)
(* Specification of the two modes of one render: thumb_with_options, then  *)
(* thumb_with_options_async with the same Options.                         *)
(***************************************************************************)
ModeOptions ==
    { OptionsDefault,
      [OptionsDefault EXCEPT !.page = NumPages],
      [OptionsDefault EXCEPT !.page = 1, !.width = MaxDim, !.rect = SomeRect,
                             !.format = "Jpeg"] }

ModeEnterBlocking == \E o \in ModeOptions : Enter("a", "thumb_with_options", o)

ModeEnterAsync ==
    /\ Returned("a")
    /\ Enter("b", "thumb_with_options_async", options["a"])

NextModes ==
    \/ DocEnter("open")
    \/ DocStep
    \/ DocOpCompleted
    \/ ModeEnterBlocking
    \/ ModeEnterAsync
    \/ CallSteps("a")
    \/ CallSteps("b")

SpecModes == Init /\ [][NextModes]_vars

\* the shorter of the two traces
Shorter(p, q) ==
    IF Len(trace[p]) <= Len(trace[q]) THEN Len(trace[p]) ELSE Len(trace[q])

\* C17: thumb_with_options and thumb_with_options_async with the same
\* Options make the same platform calls with the same arguments, in the
\* same order, as long as the platform answers the same; given the same
\* answers throughout they make the same number of calls and return the
\* same buffer or the same error.
C17_ModesSameCalls ==
    (/\ entry["a"] = "thumb_with_options"
     /\ entry["b"] = "thumb_with_options_async"
     /\ options["a"] = options["b"]
     /\ Returned("a"))
        => /\ \A n \in 1..Len(trace["b"]) :
                 (n <= Len(trace["a"]) /\ SameResponses("a", "b", n - 1))
                    => SameCall("a", "b", n)
           /\ SameResponses("a", "b", Shorter("a", "b"))
                 => Len(trace["b"]) <= Len(trace["a"])
           /\ (Returned("b") /\ SameResponses("a", "b", Shorter("a", "b")))
                 => /\ Len(trace["b"]) = Len(trace["a"])
                    /\ ret["b"] = ret["a"]
                    /\ pc["b"] = pc["a"]

\* both modes have returned the buffer of a scaled JPEG render of page 1
C17_Witness ==
    /\ entry["a"] = "thumb_with_options"
    /\ entry["b"] = "thumb_with_options_async"
    /\ options["b"].format = "Jpeg"
    /\ pc["a"] = "done" /\ pc["b"] = "done"
    /\ trace["a"] = trace["b"]
    /\ \E i \in CallsNamed("b", "Close") : i > 1
    /\ ret["a"] = ret["b"]

(***************************************************************************)
(* PdfDocument::load: the stream is filled before the document is loaded.  *)
(***************************************************************************)
\* the calls of load that come before the document load, in their order
FillCalls ==
    << "InMemoryRandomAccessStream::new", "CreateDataWriter", "WriteBytes",
       "StoreAsync", "StoreAsync.completed", "FlushAsync",
       "FlushAsync.completed", "DetachStream" >>

\* C18: load issues LoadFromStreamAsync only after the stream was allocated,
\* the bytes written, the store and the flush issued and completed and the
\* writer detached, each with success and in this order; after a failure of
\* any of these steps load has returned the error and never issues the
\* document load.
C18_LoadAfterStreamFilled ==
    entry["doc"] = "load" =>
        /\ \A i \in CallsNamed("doc", "LoadFromStreamAsync") :
              /\ i = Len(FillCalls) + 1
              /\ \A j \in 1..Len(FillCalls) :
                    /\ trace["doc"][j][1] = FillCalls[j]
                    /\ trace["doc"][j][3]
        /\ \A j \in DOMAIN trace["doc"] :
              (j <= Len(FillCalls) /\ ~trace["doc"][j][3])
                 => /\ pc["doc"] = "failed"
                    /\ Len(trace["doc"]) = j
                    /\ CallsNamed("doc", "LoadFromStreamAsync") = {}
                    /\ ~ENABLED DocStep
        /\ pc["doc"] \in {"load_doc_wait", "done"}
              => CallsNamed("doc", "LoadFromStreamAsync") # {}

\* load has issued the document load on the filled stream and waits for it
C18_Witness ==
    /\ entry["doc"] = "load"
    /\ pc["doc"] = "load_doc_wait"
    /\ op["doc"] = "running"
    /\ Len(trace["doc"]) = Len(FillCalls) + 1
    /\ trace["doc"][Len(FillCalls)] = <<"DetachStream", <<>>, TRUE>>

(***************************************************************************)
(* Specification of a render call whose thread keeps running and whose     *)
(* platform operations complete: the steps of the call, the completions of *)
(* its render and load operations among them, are taken when they can be.  *)
(***************************************************************************)
SpecLive == Init /\ [][Next]_vars /\ WF_vars(CallSteps("a"))

BlockingEntries == {"thumb", "thumb_with_options"}

\* C19: every call of thumb_with_options (and of thumb, which is one)
\* returns, with a buffer or with an error, provided the operations it
\* issued complete.
C19_BlockingCallReturns ==
    (entry["a"] \in BlockingEntries /\ pc["a"] = "get_page") ~> Returned("a")

\* thumb_with_options has returned the error of a render that completed
\* with a failure
C19_Witness ==
    /\ entry["a"] = "thumb_with_options"
    /\ pc["a"] = "failed"
    /\ \E i \in CallsNamed("a", "RenderWithOptionsToStreamAsync.completed") :
          /\ ~trace["a"][i][3]
          /\ i = Len(trace["a"])
    /\ ret["a"].kind = "Windows"

(***************************************************************************)
(* The page handle of a render call is not used after its Close.           *)
(***************************************************************************)
\* the platform calls of a render call that are made on its page handle
PageCalls == {"RenderWithOptionsToStreamAsync", "Close"}

\* C20: in a render call no operation is invoked on the page handle after
\* Close was invoked on it: the render is issued before the Close, the call
\* that waits for the render has issued it on the page before closing it,
\* and no call on the page follows the Close.
C20_NoPageCallAfterClose ==
    \A c \in Calls :
        /\ page[c].stale = 0
        /\ Before(c, {"RenderWithOptionsToStreamAsync"}, {"Close"})
        /\ \A i \in CallsNamed(c, "Close") :
              \A j \in DOMAIN trace[c] : j > i => trace[c][j][1] \notin PageCalls
        /\ pc[c] \in {"render_wait", "done"} \cup ReadPcs
              => \E i \in CallsNamed(c, "RenderWithOptionsToStreamAsync") :
                    /\ trace[c][i][3]
                    /\ trace[c][i + 1][1] = "Close"

\* a call reads the output stream, having issued the render on the page and
\* then closed the page
C20_Witness ==
    \E c \in Calls :
        /\ pc[c] = "read_size"
        /\ page[c].closes = 1
        /\ page[c].index = 1
        /\ \E i \in CallsNamed(c, "Close") :
              /\ trace[c][i - 1][1] = "RenderWithOptionsToStreamAsync"
              /\ i < Len(trace[c])

====
